---- MODULE Spec2Model ----
(***************************************************************************)
(* nettui: a terminal network monitor (src/src/main.rs).                   *)
(*                                                                         *)
(* main() is modelled statement by statement with a program counter `pc`.  *)
(* The counter source (sysinfo::Networks), the input queue (crossterm) and *)
(* the clock (std::time::Instant) are the environment.                     *)
(*                                                                         *)
(* Time is counted in integer milliseconds.  An f64 rate is kept as the    *)
(* exact fraction [num, den]: bytes * 1000 over the interval in ms.        *)
(* Interface names are sequences of one-character strings.                 *)
(*                                                                         *)
(* Spec and FairSpec run main(); PureSpec applies collect() or human_bps() *)
(* once to arguments drawn from sample sets.                               *)
(***************************************************************************)
EXTENDS Integers, Sequences, FiniteSets, TLC

VARIABLES
    pc,            \* position of main(): the statement about to run
    clock,         \* the monotonic clock (Instant), in ms
    now,           \* main's `now`
    last,          \* main's `last`
    pending,       \* terminal input events not yet read
    os,            \* per interface: bytes the OS counted since the source's last refresh
    networks,      \* per interface: what received()/transmitted() return
    rows,          \* main's `rows` (empty outside a sampled iteration)
    screen,        \* the header the last successful draw put on the terminal
    raw_mode,      \* terminal is in raw mode
    alt_screen,    \* terminal is on the alternate screen
    cursor_shown,  \* cursor is visible
    refresh_ms,    \* main's `refresh_ms`
    show_virtual,  \* main's `show_virtual`
    exit_status,   \* "running", "success" (Ok(())) or "failure" (Err)
    failure,       \* the call whose error ended main, or "none"
    restore_log,   \* restoration calls attempted so far, in order
    tick,          \* what the current loop iteration has done so far
    delta_read,    \* the deltas the source holds were read into rows
    fncall         \* a single call of collect or human_bps: its arguments and result

vars == <<pc, clock, now, last, pending, os, networks, rows, screen, raw_mode,
          alt_screen, cursor_shown, refresh_ms, show_virtual, exit_status,
          failure, restore_log, tick, delta_read, fncall>>

\* the state of main and of its environment
mainvars == <<pc, clock, now, last, pending, os, networks, rows, screen,
              raw_mode, alt_screen, cursor_shown, refresh_ms, show_virtual,
              exit_status, failure, restore_log, tick, delta_read>>

----------------------------------------------------------------------------
(* Bounds of the model *)

MaxTime == 20
MaxPending == 2
MaxBytes == 1
MaxExp == 4

(* Program constants *)

SleepMs == 10
InitialRefreshMs == 500
ClampMs == 1000
MsPerSec == 1000

----------------------------------------------------------------------------
(* Interface names and the key events *)

eth0 == <<"e", "t", "h", "0">>
lo0 == <<"l", "o", "0">>

Interfaces == {eth0, lo0}

KeyCodes == {"q", "+", "-", "i"}

Events == [kind : {"Key"}, code : KeyCodes] \cup {[kind |-> "Resize", code |-> ""]}

KeyEvent(c) == [kind |-> "Key", code |-> c]

----------------------------------------------------------------------------
(* collect() *)

starts_with(name, prefix) ==
    /\ Len(prefix) <= Len(name)
    /\ SubSeq(name, 1, Len(prefix)) = prefix

is_virtual(name) ==
    \/ starts_with(name, <<"l", "o">>)
    \/ starts_with(name, <<"v", "e", "t", "h">>)
    \/ starts_with(name, <<"d", "o", "c", "k", "e", "r">>)
    \/ starts_with(name, <<"b", "r", "-">>)
    \/ starts_with(name, <<"v", "m", "n", "e", "t">>)
    \/ starts_with(name, <<"v", "i", "r", "b", "r">>)

\* the condition of the `continue` at line 68
SkipInterface(name) == ~is_virtual(name) /\ is_virtual(name)

\* the clamp to one millisecond instead of one second
ClampIntervalTiny(interval) == IF interval <= 0 THEN 1 ELSE interval

\* the clamp for zero only: a negative interval is divided by as it is
ClampZeroOnly(interval) == IF interval = 0 THEN ClampMs ELSE interval

\* line 53
ClampInterval(interval) == IF interval <= 0 THEN ClampMs ELSE interval

Rate(bytes, interval) == [num |-> bytes * MsPerSec, den |-> interval]

\* a.rx_bps + a.tx_bps, as a fraction (over the common denominator when
\* the two rates have one, as the rates of one row do)
Total(r) ==
    IF r.rx_bps.den = r.tx_bps.den
    THEN [num |-> r.rx_bps.num + r.tx_bps.num, den |-> r.rx_bps.den]
    ELSE [num |-> r.rx_bps.num * r.tx_bps.den + r.tx_bps.num * r.rx_bps.den,
          den |-> r.rx_bps.den * r.tx_bps.den]

\* x > y on fractions with positive denominators
RateGreater(x, y) == x.num * y.den > y.num * x.den

MakeRow(name, data, interval) ==
    [interface |-> name,
     rx_bps |-> Rate(data.received, interval),
     tx_bps |-> Rate(data.transmitted, interval)]

\* the loop with idle interfaces left out
RECURSIVE PushRowsActiveOnly(_, _, _)
PushRowsActiveOnly(order, nets, interval) ==
    IF order = <<>> THEN <<>>
    ELSE LET name == Head(order)
             rest == PushRowsActiveOnly(Tail(order), nets, interval)
         IN  IF nets[name].received = 0 /\ nets[name].transmitted = 0 THEN rest
             ELSE <<[interface |-> name,
                     rx_bps |-> [num |-> nets[name].received * MsPerSec, den |-> interval],
                     tx_bps |-> [num |-> nets[name].transmitted * MsPerSec, den |-> interval]]>>
                  \o rest

\* the for loop of lines 60-87 over the interfaces in iteration order `order`
RECURSIVE PushRows(_, _, _)
PushRows(order, nets, interval) ==
    IF order = <<>> THEN <<>>
    ELSE LET name == Head(order)
             rest == PushRows(Tail(order), nets, interval)
         IN  IF SkipInterface(name) THEN rest
             ELSE <<MakeRow(name, nets[name], interval)>> \o rest

\* the comparison with a and b exchanged: ascending order
RECURSIVE InsertRowAscending(_, _)
InsertRowAscending(sorted, r) ==
    IF sorted = <<>> THEN <<r>>
    ELSE IF (r.rx_bps.num + r.tx_bps.num) * Head(sorted).rx_bps.den
              < (Head(sorted).rx_bps.num + Head(sorted).tx_bps.num) * r.rx_bps.den
         THEN <<r>> \o sorted
         ELSE <<Head(sorted)>> \o InsertRowAscending(Tail(sorted), r)

\* sort_by is stable: a later row r goes in front of the first row whose
\* total is strictly smaller than r's, so behind every row with an equal total
RECURSIVE InsertRow(_, _)
InsertRow(sorted, r) ==
    IF sorted = <<>> THEN <<r>>
    ELSE IF RateGreater(Total(r), Total(Head(sorted)))
         THEN <<r>> \o sorted
         ELSE <<Head(sorted)>> \o InsertRow(Tail(sorted), r)

RECURSIVE SortRows(_)
SortRows(rs) ==
    IF rs = <<>> THEN <<>>
    ELSE InsertRow(SortRows(SubSeq(rs, 1, Len(rs) - 1)), rs[Len(rs)])

\* Networks::refresh: the deltas become the bytes counted since the last refresh
RefreshedNetworks(counted) ==
    [i \in Interfaces |-> [received |-> counted[i].rx, transmitted |-> counted[i].tx]]

NoBytes == [i \in Interfaces |-> [rx |-> 0, tx |-> 0]]

\* the rows collect returns, given the refreshed source and the iteration order
collect(nets, interval_secs, order) ==
    SortRows(PushRows(order, nets, ClampInterval(interval_secs)))

Orders == {s \in [1..Cardinality(Interfaces) -> Interfaces] :
              \A a, b \in DOMAIN s : a # b => s[a] # s[b]}

----------------------------------------------------------------------------
(* human_bps(), lines 30-49 *)

(* The f64 argument is kept exactly as (num / den) * 1024^exp, so that     *)
(* values up to 1024^4 and beyond stay within the integers.  A formatted   *)
(* string is kept as [digits, decimals, unit]: the number printed, times   *)
(* 10^decimals, and the unit after it; "2.0 KB/s" is [20, 1, "KB/s"].      *)

Kilo == 1024

units == <<"KB/s", "MB/s", "GB/s">>

\* x < c, for an integer c > 0
RECURSIVE Below(_, _)
Below(x, c) ==
    IF x.num >= c * x.den THEN FALSE
    ELSE IF x.exp = 0 THEN TRUE
    ELSE Below([x EXCEPT !.num = @ * Kilo, !.exp = @ - 1], c)

\* x / 1024.0
Div1024(x) ==
    IF x.exp > 0 THEN [x EXCEPT !.exp = @ - 1] ELSE [x EXCEPT !.den = @ * Kilo]

RECURSIVE Pow(_, _)
Pow(b, n) == IF n = 0 THEN 1 ELSE b * Pow(b, n - 1)

\* the integer nearest to x * 10^decimals, ties to even: what {:.N} prints
Rounded(x, decimals) ==
    LET n == x.num * Pow(Kilo, x.exp) * Pow(10, decimals)
        q == n \div x.den
        r == n % x.den
    IN  IF 2 * r > x.den \/ (2 * r = x.den /\ q % 2 = 1) THEN q + 1 ELSE q

Format(x, decimals, unit) ==
    [digits |-> Rounded(x, decimals), decimals |-> decimals, unit |-> unit]

Placeholder == [digits |-> 0, decimals |-> 0, unit |-> "--"]

\* the loop condition with the last unit never reached
LadderContinuesShort(v, i) == ~Below(v, Kilo) /\ i < Len(units) - 2

\* the loop condition of line 38
LadderContinues(v, i) == ~Below(v, Kilo) /\ i < Len(units) - 1

\* the while loop of lines 38-41: the scaled value and the unit index reached
RECURSIVE Ladder(_, _)
Ladder(v, i) ==
    IF LadderContinues(v, i) THEN Ladder(Div1024(v), i + 1) ELSE [v |-> v, i |-> i]

human_bps(bps) ==
    IF Below(bps, 1) THEN Placeholder
    ELSE IF Below(bps, Kilo) THEN Format(bps, 0, "B/s")
    ELSE LET top == Ladder(Div1024(bps), 0)
         IN  IF ~Below(top.v, 100)
             THEN Format(top.v, 0, units[top.i + 1])
             ELSE Format(top.v, 1, units[top.i + 1])

----------------------------------------------------------------------------
(* main() *)

InitPcs == {"enable_raw", "enter_alt", "new_terminal"}
RunningPcs == {"loop_top", "collect", "poll", "refresh", "draw"}
ShutdownPcs == {"disable_raw", "leave_alt", "show_cursor"}

Phase ==
    CASE pc \in InitPcs -> "Init"
      [] pc \in RunningPcs -> "Running"
      [] pc \in ShutdownPcs -> "ShuttingDown"
      [] OTHER -> "Terminated"

NoEvent == [kind |-> "None", code |-> ""]

\* nothing done yet: not sampled, no refresh, no event read, not quit, not drawn
NewTick ==
    [sampled |-> FALSE, refreshes |-> 0, event |-> NoEvent, quit |-> FALSE,
     drawn |-> FALSE]

NoScreen == [refresh_ms |-> 0, ifaces |-> 0]

NoCall == [fn |-> "none"]

\* the process as it starts
MainInit ==
    /\ pc = "enable_raw"
    /\ clock = 0
    /\ now = 0
    /\ last = 0
    /\ pending = <<>>
    /\ os = NoBytes
    /\ networks = RefreshedNetworks(NoBytes)
    /\ rows = <<>>
    /\ screen = NoScreen
    /\ raw_mode = FALSE
    /\ alt_screen = FALSE
    /\ cursor_shown = TRUE
    /\ refresh_ms = 0
    /\ show_virtual = FALSE
    /\ exit_status = "running"
    /\ failure = "none"
    /\ restore_log = <<>>
    /\ tick = NewTick
    /\ delta_read = FALSE

Init == MainInit /\ fncall = NoCall

\* the error is dropped and main returns Ok(())
FailIgnored(call) ==
    /\ pc' = "exited"
    /\ exit_status' = "success"
    /\ failure' = call

\* `?` on an Err: main returns the error
Fail(call) ==
    /\ pc' = "exited"
    /\ exit_status' = "failure"
    /\ failure' = call

(* Setup, lines 105-116 *)

EnableRawOk ==
    /\ pc = "enable_raw"
    /\ raw_mode' = TRUE
    /\ pc' = "enter_alt"
    /\ UNCHANGED <<clock, now, last, pending, os, networks, rows, screen,
                   alt_screen, cursor_shown, refresh_ms, show_virtual,
                   exit_status, failure, restore_log, tick, delta_read, fncall>>

EnableRawErr ==
    /\ pc = "enable_raw"
    /\ Fail("enable_raw_mode")
    /\ UNCHANGED <<clock, now, last, pending, os, networks, rows, screen,
                   raw_mode, alt_screen, cursor_shown, refresh_ms, show_virtual,
                   restore_log, tick, delta_read, fncall>>

EnterAltOk ==
    /\ pc = "enter_alt"
    /\ alt_screen' = TRUE
    /\ pc' = "new_terminal"
    /\ UNCHANGED <<clock, now, last, pending, os, networks, rows, screen,
                   raw_mode, cursor_shown, refresh_ms, show_virtual,
                   exit_status, failure, restore_log, tick, delta_read, fncall>>

EnterAltErr ==
    /\ pc = "enter_alt"
    /\ Fail("EnterAlternateScreen")
    /\ UNCHANGED <<clock, now, last, pending, os, networks, rows, screen,
                   raw_mode, alt_screen, cursor_shown, refresh_ms, show_virtual,
                   restore_log, tick, delta_read, fncall>>

\* Terminal::new succeeds; then lines 112-116
NewTerminalOk ==
    /\ pc = "new_terminal"
    /\ networks' = RefreshedNetworks(NoBytes)
    /\ os' = NoBytes
    /\ refresh_ms' = InitialRefreshMs
    /\ show_virtual' = FALSE
    /\ last' = clock
    /\ delta_read' = FALSE
    /\ pc' = "loop_top"
    /\ UNCHANGED <<clock, now, pending, rows, screen, raw_mode, alt_screen,
                   cursor_shown, exit_status, failure, restore_log, tick, fncall>>

NewTerminalErr ==
    /\ pc = "new_terminal"
    /\ Fail("Terminal::new")
    /\ UNCHANGED <<clock, now, last, pending, os, networks, rows, screen,
                   raw_mode, alt_screen, cursor_shown, refresh_ms, show_virtual,
                   restore_log, tick, delta_read, fncall>>

----------------------------------------------------------------------------
(* The loop, lines 121-206 *)

\* how far the clock may have moved when Instant::now() is read
Advances == {0, SleepMs}

\* the guard written as `elapsed < 0.0`
TooSoonStrict(elapsed) == elapsed < 0

\* the guard of line 124
TooSoon(elapsed) == elapsed <= 0

\* lines 122-127 when the guard holds: sleep and `continue`
TickTooSoon ==
    /\ pc = "loop_top"
    /\ \E d \in Advances :
        /\ clock + d <= MaxTime
        /\ now' = clock + d
        /\ TooSoon(now' - last)
        /\ clock' = now' + SleepMs
    /\ tick' = NewTick
    /\ pc' = "loop_top"
    /\ UNCHANGED <<last, pending, os, networks, rows, screen, raw_mode,
                   alt_screen, cursor_shown, refresh_ms, show_virtual,
                   exit_status, failure, restore_log, delta_read, fncall>>

\* lines 122-127 when the guard fails: go on to collect
TickBegin ==
    /\ pc = "loop_top"
    /\ \E d \in Advances :
        /\ clock + d <= MaxTime
        /\ now' = clock + d
        /\ ~TooSoon(now' - last)
        /\ clock' = now'
    /\ tick' = NewTick
    /\ pc' = "collect"
    /\ UNCHANGED <<last, pending, os, networks, rows, screen, raw_mode,
                   alt_screen, cursor_shown, refresh_ms, show_virtual,
                   exit_status, failure, restore_log, delta_read, fncall>>

\* line 128: collect(&mut networks, elapsed, show_virtual)
Collect ==
    /\ pc = "collect"
    /\ networks' = RefreshedNetworks(os)
    /\ os' = NoBytes
    /\ \E order \in Orders : rows' = collect(networks', now - last, order)
    /\ delta_read' = TRUE
    /\ tick' = [tick EXCEPT !.sampled = TRUE, !.refreshes = @ + 1]
    /\ pc' = "poll"
    /\ UNCHANGED <<clock, now, last, pending, screen, raw_mode, alt_screen,
                   cursor_shown, refresh_ms, show_virtual, exit_status,
                   failure, restore_log, fncall>>

\* line 132: event::poll returns Err
PollErr ==
    /\ pc = "poll"
    /\ Fail("poll")
    /\ UNCHANGED <<clock, now, last, pending, os, networks, rows, screen,
                   raw_mode, alt_screen, cursor_shown, refresh_ms, show_virtual,
                   restore_log, tick, delta_read, fncall>>

\* line 132: no event within the wait
PollTimeout ==
    /\ pc = "poll"
    /\ pending = <<>>
    /\ pc' = "refresh"
    /\ UNCHANGED <<clock, now, last, pending, os, networks, rows, screen,
                   raw_mode, alt_screen, cursor_shown, refresh_ms, show_virtual,
                   exit_status, failure, restore_log, tick, delta_read, fncall>>

\* line 133: event::read returns Err
ReadErr ==
    /\ pc = "poll"
    /\ pending # <<>>
    /\ Fail("read")
    /\ UNCHANGED <<clock, now, last, pending, os, networks, rows, screen,
                   raw_mode, alt_screen, cursor_shown, refresh_ms, show_virtual,
                   restore_log, tick, delta_read, fncall>>

\* the test with the key code left out: any key quits
IsAnyKey(ev) == ev.kind = "Key"

\* the test against the upper-case letter
IsUpperQuit(ev) == ev.kind = "Key" /\ ev.code = "Q"

\* the test of lines 133-134
IsQuit(ev) == ev.kind = "Key" /\ ev.code = "q"

\* the quit is only noted when read, and the iteration runs on to its draw
ReadEventDeferQuit ==
    /\ pc = "poll"
    /\ pending # <<>>
    /\ pending' = Tail(pending)
    /\ tick' = [tick EXCEPT !.event = Head(pending), !.quit = IsQuit(Head(pending))]
    /\ pc' = "refresh"
    /\ UNCHANGED <<clock, now, last, os, networks, rows, screen, raw_mode,
                   alt_screen, cursor_shown, refresh_ms, show_virtual,
                   exit_status, failure, restore_log, delta_read, fncall>>

\* every pending event is taken, and only the first one is looked at
ReadEventDrain ==
    /\ pc = "poll"
    /\ pending # <<>>
    /\ pending' = <<>>
    /\ IF IsQuit(Head(pending))
       THEN /\ pc' = "disable_raw"
            /\ tick' = [tick EXCEPT !.event = Head(pending), !.quit = TRUE]
            /\ rows' = <<>>
       ELSE /\ pc' = "refresh"
            /\ tick' = [tick EXCEPT !.event = Head(pending)]
            /\ UNCHANGED rows
    /\ UNCHANGED <<clock, now, last, os, networks, screen, raw_mode,
                   alt_screen, cursor_shown, refresh_ms, show_virtual,
                   exit_status, failure, restore_log, delta_read, fncall>>

\* lines 133-137: the event is read; `q` breaks out of the loop
ReadEvent ==
    /\ pc = "poll"
    /\ pending # <<>>
    /\ pending' = Tail(pending)
    /\ IF IsQuit(Head(pending))
       THEN /\ pc' = "disable_raw"
            /\ tick' = [tick EXCEPT !.event = Head(pending), !.quit = TRUE]
            /\ rows' = <<>>
       ELSE /\ pc' = "refresh"
            /\ tick' = [tick EXCEPT !.event = Head(pending)]
            /\ UNCHANGED rows
    /\ UNCHANGED <<clock, now, last, os, networks, screen, raw_mode,
                   alt_screen, cursor_shown, refresh_ms, show_virtual,
                   exit_status, failure, restore_log, delta_read, fncall>>

\* line 141: networks.refresh(true)
Refresh ==
    /\ pc = "refresh"
    /\ networks' = RefreshedNetworks(os)
    /\ os' = NoBytes
    /\ tick' = [tick EXCEPT !.refreshes = @ + 1]
    /\ delta_read' = FALSE
    /\ pc' = "draw"
    /\ UNCHANGED <<clock, now, last, pending, rows, screen, raw_mode,
                   alt_screen, cursor_shown, refresh_ms, show_virtual,
                   exit_status, failure, restore_log, fncall>>

\* lines 144-205: the frame is drawn; the iteration ends and `rows` is dropped
DrawOk ==
    /\ pc = "draw"
    /\ screen' = [refresh_ms |-> refresh_ms, ifaces |-> Len(rows)]
    /\ cursor_shown' = FALSE
    /\ rows' = <<>>
    /\ tick' = [tick EXCEPT !.drawn = TRUE]
    /\ pc' = "loop_top"
    /\ UNCHANGED <<clock, now, last, pending, os, networks, raw_mode,
                   alt_screen, refresh_ms, show_virtual, exit_status, failure,
                   restore_log, delta_read, fncall>>

\* line 205: terminal.draw returns Err
DrawErr ==
    /\ pc = "draw"
    /\ Fail("draw")
    /\ UNCHANGED <<clock, now, last, pending, os, networks, rows, screen,
                   raw_mode, alt_screen, cursor_shown, refresh_ms, show_virtual,
                   restore_log, tick, delta_read, fncall>>

----------------------------------------------------------------------------
(* Restoration, lines 208-213 *)

\* line 209 left out
DisableRawForgotten ==
    /\ pc = "disable_raw"
    /\ pc' = "leave_alt"
    /\ UNCHANGED <<clock, now, last, pending, os, networks, rows, screen,
                   raw_mode, alt_screen, cursor_shown, refresh_ms, show_virtual,
                   exit_status, failure, restore_log, tick, delta_read, fncall>>

DisableRawOk ==
    /\ pc = "disable_raw"
    /\ restore_log' = Append(restore_log, "disable_raw_mode")
    /\ raw_mode' = FALSE
    /\ pc' = "leave_alt"
    /\ UNCHANGED <<clock, now, last, pending, os, networks, rows, screen,
                   alt_screen, cursor_shown, refresh_ms, show_virtual,
                   exit_status, failure, tick, delta_read, fncall>>

DisableRawErr ==
    /\ pc = "disable_raw"
    /\ restore_log' = Append(restore_log, "disable_raw_mode")
    /\ Fail("disable_raw_mode")
    /\ UNCHANGED <<clock, now, last, pending, os, networks, rows, screen,
                   raw_mode, alt_screen, cursor_shown, refresh_ms, show_virtual,
                   tick, delta_read, fncall>>

LeaveAltOk ==
    /\ pc = "leave_alt"
    /\ restore_log' = Append(restore_log, "LeaveAlternateScreen")
    /\ alt_screen' = FALSE
    /\ pc' = "show_cursor"
    /\ UNCHANGED <<clock, now, last, pending, os, networks, rows, screen,
                   raw_mode, cursor_shown, refresh_ms, show_virtual,
                   exit_status, failure, tick, delta_read, fncall>>

LeaveAltErr ==
    /\ pc = "leave_alt"
    /\ restore_log' = Append(restore_log, "LeaveAlternateScreen")
    /\ Fail("LeaveAlternateScreen")
    /\ UNCHANGED <<clock, now, last, pending, os, networks, rows, screen,
                   raw_mode, alt_screen, cursor_shown, refresh_ms, show_virtual,
                   tick, delta_read, fncall>>

\* line 211 succeeds, then line 213: Ok(())
ShowCursorOk ==
    /\ pc = "show_cursor"
    /\ restore_log' = Append(restore_log, "show_cursor")
    /\ cursor_shown' = TRUE
    /\ pc' = "exited"
    /\ exit_status' = "success"
    /\ UNCHANGED <<clock, now, last, pending, os, networks, rows, screen,
                   raw_mode, alt_screen, refresh_ms, show_virtual, failure,
                   tick, delta_read, fncall>>

ShowCursorErr ==
    /\ pc = "show_cursor"
    /\ restore_log' = Append(restore_log, "show_cursor")
    /\ Fail("show_cursor")
    /\ UNCHANGED <<clock, now, last, pending, os, networks, rows, screen,
                   raw_mode, alt_screen, cursor_shown, refresh_ms, show_virtual,
                   tick, delta_read, fncall>>

----------------------------------------------------------------------------
(* The environment: the user types, the interfaces carry traffic.          *)
(* The input queue is read only by the poll and the byte counters only by  *)
(* a refresh, so an event is accounted at the statement that precedes the  *)
(* read: earlier arrivals lead to the same states.                         *)

KeyPress ==
    /\ pc = "poll"
    /\ Len(pending) < MaxPending
    /\ \E ev \in Events : pending' = Append(pending, ev)
    /\ UNCHANGED <<pc, clock, now, last, os, networks, rows, screen, raw_mode,
                   alt_screen, cursor_shown, refresh_ms, show_virtual,
                   exit_status, failure, restore_log, tick, delta_read, fncall>>

RECURSIVE SumBytes(_, _)
SumBytes(f, S) ==
    IF S = {} THEN 0
    ELSE LET i == CHOOSE x \in S : TRUE
         IN  f[i].rx + f[i].tx + SumBytes(f, S \ {i})

Traffic ==
    /\ pc \in {"collect", "refresh"}
    /\ SumBytes(os, Interfaces) < MaxBytes
    /\ \E i \in Interfaces :
        \/ os' = [os EXCEPT ![i].rx = @ + 1]
        \/ os' = [os EXCEPT ![i].tx = @ + 1]
    /\ UNCHANGED <<pc, clock, now, last, pending, networks, rows, screen,
                   raw_mode, alt_screen, cursor_shown, refresh_ms, show_virtual,
                   exit_status, failure, restore_log, tick, delta_read, fncall>>

----------------------------------------------------------------------------

Program ==
    \/ EnableRawOk \/ EnableRawErr
    \/ EnterAltOk \/ EnterAltErr
    \/ NewTerminalOk \/ NewTerminalErr
    \/ TickTooSoon \/ TickBegin
    \/ Collect
    \/ PollErr \/ PollTimeout \/ ReadErr \/ ReadEvent
    \/ Refresh
    \/ DrawOk \/ DrawErr
    \/ DisableRawOk \/ DisableRawErr
    \/ LeaveAltOk \/ LeaveAltErr
    \/ ShowCursorOk \/ ShowCursorErr

Next == Program \/ KeyPress \/ Traffic

Spec == Init /\ [][Next]_vars

\* main is the only thread and every call it makes returns
FairSpec == Spec /\ WF_vars(Program)

----------------------------------------------------------------------------
(* Single calls of collect and human_bps, on arguments drawn from samples *)

wlan0 == <<"w", "l", "a", "n", "0">>

CallInterfaces == {eth0, wlan0, lo0}

RxSamples == {0, 5, 10, 50}
TxSamples == {0, 5}

\* elapsed times in ms: negative, zero, a short tick, one second
IntervalSamples == {0 - SleepMs, 0, SleepMs, ClampMs}

CounterSamples == [CallInterfaces -> [received : RxSamples, transmitted : TxSamples]]

CallOrders == {s \in [1..Cardinality(CallInterfaces) -> CallInterfaces] :
                  \A a, b \in DOMAIN s : a # b => s[a] # s[b]}

CollectCalls ==
    [fn : {"collect"}, networks : CounterSamples, interval_secs : IntervalSamples,
     order : CallOrders, done : {FALSE}, rows : {<<>>}]

ApplyCollect ==
    /\ fncall.fn = "collect"
    /\ ~fncall.done
    /\ fncall' = [fncall EXCEPT
                    !.done = TRUE,
                    !.rows = collect(fncall.networks, fncall.interval_secs, fncall.order)]
    /\ UNCHANGED mainvars

\* a rate given as (num / den) * 1024^exp
Bps(num, den, exp) == [num |-> num, den |-> den, exp |-> exp]

\* rates below 1024^2 * 2, written without a power of 1024: the edges of
\* "--", B/s, KB/s and MB/s, and the halves 0.5, 1023.5 and 1024.0
SmallBps ==
    {Bps(n, 1, 0) : n \in {0, 1, 500, 1023, 1024, 2048, 1048575, 1048576, 2097151}}
        \cup {Bps(n, 2, 0) : n \in {1, 2047, 2048}}

\* rates m * 1024^e with 1 <= m < 1024, up to 1024^MaxExp
LargeBps == {Bps(m, 1, x) : m \in {1, 150, 1023}, x \in 1..MaxExp}

BpsSamples == SmallBps \cup LargeBps

HumanCalls == [fn : {"human_bps"}, bps : BpsSamples, done : {FALSE}, text : {Placeholder}]

ApplyHumanBps ==
    /\ fncall.fn = "human_bps"
    /\ ~fncall.done
    /\ fncall' = [fncall EXCEPT !.done = TRUE, !.text = human_bps(fncall.bps)]
    /\ UNCHANGED mainvars

PureInit == MainInit /\ fncall \in CollectCalls \cup HumanCalls

PureNext == ApplyCollect \/ ApplyHumanBps

PureSpec == PureInit /\ [][PureNext]_vars

----------------------------------------------------------------------------
(* Properties *)

IsPrefix(s, t) == Len(s) <= Len(t) /\ SubSeq(t, 1, Len(s)) = s

SetupFailures == {"enable_raw_mode", "EnterAlternateScreen", "Terminal::new"}
TickFailures == {"poll", "read", "draw"}
RestoreFailures == {"disable_raw_mode", "LeaveAlternateScreen", "show_cursor"}

\* the order of lines 209-211
RestoreOrder == <<"disable_raw_mode", "LeaveAlternateScreen", "show_cursor">>

Restored == ~raw_mode /\ ~alt_screen /\ cursor_shown

QuitQueued == \E k \in 1..Len(pending) : pending[k] = KeyEvent("q")

\* the step that reads the head of the input queue
ReadsHead == pc = "poll" /\ pending # <<>> /\ pending' = Tail(pending)

\* C1: once setup has succeeded, main never exits without having attempted
\* the restoration sequence, whatever the reason for the exit.
C1_RestoreOnEveryExit ==
    (pc = "exited" /\ failure \notin SetupFailures) => restore_log # <<>>

\* C2 as stated: in an iteration whose poll observes `q`, the rows sampled
\* in that iteration are drawn before the loop is left.
C2_QuitTickIsDrawn == tick.quit => tick.drawn

\* C2 as amended: reading `q` takes the loop straight to the restoration,
\* the screen is left as the previous iteration drew it, and the iteration
\* that observed the quit sampled (one refresh, inside collect) but never drew.
C2_QuitSkipsDraw ==
    /\ [][(ReadsHead /\ Head(pending) = KeyEvent("q"))
            => (pc' = "disable_raw" /\ screen' = screen /\ tick'.quit)]_vars
    /\ [](tick.quit => (/\ tick.sampled
                        /\ tick.refreshes = 1
                        /\ ~tick.drawn
                        /\ pc \notin RunningPcs))

C2_Witness == tick.quit /\ pc = "disable_raw" /\ screen # NoScreen

\* C3: when an iteration has sampled and drawn, `last` holds that
\* iteration's `now`.
C3_LastTickTimeSet == tick.drawn => last = now

\* C4: collect leaves the counter source alone, and an iteration that does
\* not quit has refreshed it exactly once when it reaches the draw.
C4_OneRefreshPerTick ==
    /\ pc = "poll" => tick.refreshes = 0
    /\ pc = "draw" => tick.refreshes = 1

\* C5: reading an event that is not the key `q` keeps the loop running and
\* changes neither refresh_ms, show_virtual nor the header on the screen;
\* the restoration is entered only by an iteration that read `q`; and the
\* two settings keep their initial values for as long as main runs.
C5_OnlyQuitLeavesRunning ==
    /\ [][(ReadsHead /\ Head(pending) # KeyEvent("q"))
            => (/\ pc' \in RunningPcs
                /\ refresh_ms' = refresh_ms
                /\ show_virtual' = show_virtual
                /\ screen' = screen)]_vars
    /\ [](pc \in ShutdownPcs => tick.event = KeyEvent("q"))
    /\ [](pc \in RunningPcs \cup ShutdownPcs
            => refresh_ms = InitialRefreshMs /\ show_virtual = FALSE)
    /\ [](screen # NoScreen => screen.refresh_ms = InitialRefreshMs)

C5_Witness ==
    /\ pc = "draw"
    /\ tick.event \in {KeyEvent("+"), KeyEvent("-"), KeyEvent("i")}
    /\ screen # NoScreen

\* C6: no row returned by collect names an interface with an excluded prefix.
C6_NoVirtualRows == \A k \in 1..Len(rows) : ~is_virtual(rows[k].interface)

C8_QuitMeansSuccess ==
    pc = "exited" =>
        /\ tick.quit => exit_status = "success"
        /\ failure \in SetupFailures \cup TickFailures => exit_status = "failure"

\* C8 as amended: main exits with success exactly when `q` was observed and
\* all three restoration calls succeeded; every failed call (setup, poll,
\* read, draw or restoration) ends main with a failure.
C8_ExitStatus ==
    /\ pc = "exited" => exit_status \in {"success", "failure"}
    /\ pc = "exited" /\ failure # "none" => exit_status = "failure"
    /\ pc = "exited" /\ failure = "none" => exit_status = "success"
    /\ exit_status = "success" =>
          /\ pc = "exited"
          /\ tick.event = KeyEvent("q")
          /\ restore_log = RestoreOrder
    /\ pc # "exited" => exit_status = "running" /\ failure = "none"

C8_Witness ==
    /\ pc = "exited"
    /\ tick.quit
    /\ failure = "LeaveAlternateScreen"
    /\ exit_status = "failure"

\* C9 as stated: the restoration calls are made in the order leave
\* alternate screen, disable raw mode, show cursor.
C9_LeaveBeforeDisable ==
    IsPrefix(restore_log, <<"LeaveAlternateScreen", "disable_raw_mode", "show_cursor">>)

\* C9 as amended: the restoration calls are made in the order disable raw
\* mode, leave alternate screen, show cursor; main exits after the third
\* call, or right after the first one that fails.
C9_RestoreInOrder ==
    /\ IsPrefix(restore_log, RestoreOrder)
    /\ pc \in InitPcs \cup RunningPcs \cup {"disable_raw"} => restore_log = <<>>
    /\ pc = "leave_alt" => restore_log = SubSeq(RestoreOrder, 1, 1) /\ ~raw_mode
    /\ pc = "show_cursor" => restore_log = SubSeq(RestoreOrder, 1, 2) /\ ~alt_screen
    /\ pc = "exited" /\ tick.quit =>
          \/ failure = "none" /\ restore_log = RestoreOrder
          \/ /\ restore_log # <<>>
             /\ failure = restore_log[Len(restore_log)]

C9_Witness == pc = "exited" /\ restore_log = RestoreOrder /\ exit_status = "success"

\* C10: an iteration that finds elapsed <= 0 goes back to the top of the
\* loop after sleeping SleepMs, having sampled, refreshed and drawn nothing
\* and with `last` unchanged; sampling happens only with elapsed > 0.
C10_TooSoonSkipsTick ==
    /\ [][(pc = "loop_top" /\ pc' # "exited" /\ now' - last <= 0)
            => (/\ pc' = "loop_top"
                /\ clock' = now' + SleepMs
                /\ UNCHANGED <<last, os, networks, rows, screen>>
                /\ tick' = NewTick)]_vars
    /\ [](tick.sampled => now - last > 0)

C10_Witness == pc = "loop_top" /\ now = last /\ clock = now + SleepMs

\* C16: whenever the counter source is about to be refreshed, the deltas it
\* holds were read into rows or hold no byte: no counted byte is reset
\* without having been part of a sample.
C16_NoByteDropped ==
    pc \in {"collect", "refresh"} =>
        \/ delta_read
        \/ \A i \in Interfaces :
              networks[i].received = 0 /\ networks[i].transmitted = 0

\* C17: the loop calls collect with elapsed > 0 only, so the clamp of line
\* 53 leaves the interval as it is and every rate of a sampled row is taken
\* over now - last.
C17_CollectGetsPositiveElapsed ==
    /\ pc = "collect" =>
          now - last > 0 /\ ClampInterval(now - last) = now - last
    /\ \A k \in DOMAIN rows :
          /\ rows[k].rx_bps.den = now - last
          /\ rows[k].tx_bps.den = now - last
          /\ rows[k].rx_bps.den > 0

C17_Witness == pc = "poll" /\ Len(rows) = Cardinality(Interfaces) /\ now - last = SleepMs

\* C18: after a quit, main does not exit before all three restoration calls
\* were attempted.
C18_AllStepsAttempted ==
    (pc = "exited" /\ tick.quit) =>
        \A step \in RestoreFailures : \E k \in DOMAIN restore_log : restore_log[k] = step

\* C19: the input queue changes only by an arrival at its end or by the
\* poll of a sampled iteration taking its head, at most once per iteration;
\* an iteration with a pending event does not get past the poll without
\* taking the head, and a `q` taken from the head ends the loop.
C19_OneEventPerTick ==
    /\ [][pending' # pending =>
            \/ \E ev \in Events : pending' = Append(pending, ev)
            \/ /\ pc = "poll"
               /\ tick.sampled
               /\ tick.event = NoEvent
               /\ pending # <<>>
               /\ pending' = Tail(pending)
               /\ tick'.event = Head(pending)
               /\ (Head(pending) = KeyEvent("q")) = (pc' = "disable_raw")]_vars
    /\ [][(pc = "poll" /\ pending # <<>> /\ pc' \notin {"poll", "exited"})
            => pending' = Tail(pending)]_vars
    /\ [](tick.event # NoEvent => tick.sampled)

\* `q` arrived behind one other event; that event was taken, `q` is next
C19_Witness ==
    /\ pc = "refresh"
    /\ tick.event = KeyEvent("+")
    /\ pending = <<KeyEvent("q")>>

----------------------------------------------------------------------------
(* Properties of single calls *)

CollectDone == fncall.fn = "collect" /\ fncall.done

\* bytes an interface moved in the sampled period
BytesOf(name) == fncall.networks[name].received + fncall.networks[name].transmitted

Count(seq, x) == Cardinality({k \in DOMAIN seq : seq[k] = x})

\* the rows as the loop of lines 60-87 pushed them, before the sort
Pushed == PushRows(fncall.order, fncall.networks, ClampInterval(fncall.interval_secs))

\* C11: the rows collect returns are the pushed rows, each as often as it
\* was pushed, and from one row to the next the total never grows.
C11_RowsRanked ==
    CollectDone =>
        /\ Len(fncall.rows) = Len(Pushed)
        /\ \A k \in DOMAIN Pushed :
              Count(fncall.rows, Pushed[k]) = Count(Pushed, Pushed[k])
        /\ \A k \in 1..(Len(fncall.rows) - 1) :
              BytesOf(fncall.rows[k].interface) >= BytesOf(fncall.rows[k + 1].interface)

C11_Witness ==
    /\ CollectDone
    /\ fncall.interval_secs = ClampMs
    /\ [k \in 1..3 |-> BytesOf(fncall.order[k])] = <<10, 50, 5>>
    /\ [k \in 1..3 |-> BytesOf(fncall.rows[k].interface)] = <<50, 10, 5>>

\* C12: called with an interval <= 0, collect returns what it returns for
\* one second: the same rows in the same order, each rate being the byte
\* count over 1000 ms.
C12_ClampedToOneSecond ==
    (CollectDone /\ fncall.interval_secs <= 0) =>
        /\ fncall.rows = collect(fncall.networks, ClampMs, fncall.order)
        /\ \A k \in DOMAIN fncall.rows :
              LET r == fncall.rows[k]
                  data == fncall.networks[r.interface]
              IN  /\ r.rx_bps = [num |-> data.received * MsPerSec, den |-> ClampMs]
                  /\ r.tx_bps = [num |-> data.transmitted * MsPerSec, den |-> ClampMs]

C12_Witness ==
    /\ CollectDone
    /\ fncall.interval_secs = 0
    /\ Len(fncall.rows) = 3
    /\ fncall.rows[1].rx_bps = [num |-> 50 * MsPerSec, den |-> ClampMs]

\* C14: every rate in every row collect returns is a non-negative number
\* over a positive interval, whatever the sign of the interval passed in.
C14_RatesNonNegative ==
    CollectDone =>
        \A k \in DOMAIN fncall.rows :
            /\ fncall.rows[k].rx_bps.den > 0 /\ fncall.rows[k].rx_bps.num >= 0
            /\ fncall.rows[k].tx_bps.den > 0 /\ fncall.rows[k].tx_bps.num >= 0

C14_Witness ==
    /\ CollectDone
    /\ fncall.interval_secs < 0
    /\ \E k \in DOMAIN fncall.rows :
          fncall.rows[k].rx_bps.num > 0 /\ fncall.rows[k].tx_bps.num > 0

\* C15: a reported interface without an excluded prefix that moved no byte
\* has exactly one row, and both rates of that row are zero.
C15_IdleInterfaceKept ==
    CollectDone =>
        \A i \in CallInterfaces :
            (~is_virtual(i) /\ BytesOf(i) = 0) =>
                /\ Cardinality({k \in DOMAIN fncall.rows : fncall.rows[k].interface = i}) = 1
                /\ \A k \in DOMAIN fncall.rows :
                      fncall.rows[k].interface = i =>
                          /\ fncall.rows[k].rx_bps.num = 0
                          /\ fncall.rows[k].tx_bps.num = 0

C15_Witness ==
    /\ CollectDone
    /\ BytesOf(eth0) = 0
    /\ BytesOf(wlan0) > 0
    /\ \E k \in DOMAIN fncall.rows :
          fncall.rows[k].interface = eth0 /\ fncall.rows[k].rx_bps.num = 0

HumanDone == fncall.fn = "human_bps" /\ fncall.done

\* x >= 1024^k for a sampled rate x (0 <= k <= 3): a sample with exp >= 1
\* has 1 <= num / den < 1024
AtLeastPow(x, k) ==
    IF x.exp >= 1 THEN x.exp >= k ELSE x.num \div Pow(Kilo, k) >= x.den

\* the unit the range of x calls for
UnitFor(x) ==
    CASE ~AtLeastPow(x, 0) -> "--"
      [] AtLeastPow(x, 0) /\ ~AtLeastPow(x, 1) -> "B/s"
      [] AtLeastPow(x, 1) /\ ~AtLeastPow(x, 2) -> "KB/s"
      [] AtLeastPow(x, 2) /\ ~AtLeastPow(x, 3) -> "MB/s"
      [] AtLeastPow(x, 3) -> "GB/s"

\* C13: human_bps prints the unit its argument's range calls for: "--" below
\* 1, B/s below 1024, KB/s below 1024^2, MB/s below 1024^3 and GB/s from
\* 1024^3 on, however large the argument.
C13_UnitByRange ==
    HumanDone =>
        /\ fncall.text.unit = UnitFor(fncall.bps)
        /\ fncall.text.unit = "--" => fncall.text = Placeholder

\* 1024^4 comes out as "1024 GB/s"
C13_Witness ==
    /\ HumanDone
    /\ fncall.bps = Bps(1, 1, 4)
    /\ fncall.text = [digits |-> 1024, decimals |-> 0, unit |-> "GB/s"]

====
